---- MODULE Spec2Model ----
(***************************************************************************)
(* Model of coluna_absorcao.py, a Streamlit script: every user interaction *)
(* reruns the script top to bottom (sidebar, tab "Importar Dados", tab     *)
(* "Simulacao", tab "Resultados"); only st.session_state survives a rerun. *)
(*                                                                         *)
(* Number representation.  Floats are modelled as fixed-point integers:    *)
(*   heights      in units of 1/HScale m   (so 1.0 is HScale),             *)
(*   delta_z2     in units of 1/HScale^2 m2,                               *)
(*   diffusivity  in units of 1e-7 m2/s    (so 1e-5 is 100),               *)
(* and the two non-finite floats that the script can produce are the       *)
(* sentinels NaN and Inf, which every arithmetic operator propagates the   *)
(* way IEEE-754 / numpy does.                                              *)
(***************************************************************************)
EXTENDS Integers, Sequences, FiniteSets, TLC

VARIABLES
    uploaded_file,   \* st.file_uploader widget value (line 147)
    P,               \* sidebar: total pressure in atm, a rational <<num, den>> (line 88)
    T,               \* sidebar: temperature in K (line 89)
    D_AB_teorico,    \* sidebar: reference diffusivity, units 1e-7 m2/s (lines 92-93)
    session_state,   \* st.session_state: a function whose DOMAIN is the keys present
    pc,              \* position of the running script: idle, tab1, tab2, tab3
    df_lido,         \* the table object read at line 152, as processar_dados left it
    tab1Out,         \* what tab 1 rendered in this rerun
    tab2Out,         \* what tab 2 rendered in this rerun
    modeloOut,       \* what modelo_diffusao produced for the fit of this rerun
    tab3Out,         \* what tab 3 rendered in this rerun
    metrics,         \* the three st.metric values of tab 3 (<<>> when not shown)
    export,          \* rows of the CSV behind st.download_button (<<>> when not offered)
    sessao_antes,    \* history: session_state as the running rerun found it
    arquivo_novo     \* history: the running rerun was started by uploading a file

vars == <<uploaded_file, P, T, D_AB_teorico, session_state, pc, df_lido,
          tab1Out, tab2Out, modeloOut, tab3Out, metrics, export,
          sessao_antes, arquivo_novo>>

----------------------------------------------------------------------------
(* Bounds and number domain *)

\* largest number of data rows of an uploaded table
MaxRows == 2

\* fixed-point denominator of heights: four decimals, so that a height with
\* two decimals is still exact after the division by 100
HScale == 100 * 100

\* fixed-point denominator of the dimensionless ratios (T/T_ref)^1.75 and
\* erro_absoluto / D_AB_teorico_ajustado
RScale == 100 * 100

\* float('nan') and float('inf')
NaN == 0 - 1000000000
Inf == 1000000000

IsFinite(x) == x # NaN /\ x # Inf /\ x # 0 - Inf

Sign(x) == IF x > 0 THEN 1 ELSE IF x < 0 THEN 0 - 1 ELSE 0

Abs(x) == IF x < 0 THEN 0 - x ELSE x

\* IEEE multiplication on {NaN, -Inf, finite, Inf}; a finite operand is exact
FMul(a, b) ==
    IF a = NaN \/ b = NaN THEN NaN
    ELSE IF Abs(a) = Inf \/ Abs(b) = Inf
         THEN IF a = 0 \/ b = 0 THEN NaN ELSE Sign(a) * Sign(b) * Inf
         ELSE a * b

\* IEEE subtraction
FSub(a, b) ==
    IF a = NaN \/ b = NaN THEN NaN
    ELSE IF Abs(a) = Inf
         THEN IF a = b THEN NaN ELSE a
         ELSE IF Abs(b) = Inf THEN 0 - b ELSE a - b

\* numpy float64 division by a float: a zero divisor gives inf or nan (and a
\* RuntimeWarning), never an exception.  The quotient is returned with
\* denominator RScale.
NpDiv(a, b) ==
    IF a = NaN \/ b = NaN THEN NaN
    ELSE IF b = 0 THEN (IF a = 0 THEN NaN ELSE Sign(a) * Inf)
    ELSE IF Abs(a) = Inf THEN (IF Abs(b) = Inf THEN NaN ELSE Sign(a) * Sign(b) * Inf)
    ELSE IF Abs(b) = Inf THEN 0
    ELSE Sign(a) * Sign(b) * ((Abs(a) * RScale) \div Abs(b))

\* numpy.sqrt on the sign of its argument: nan for a negative argument
NpSqrtSign(x) ==
    IF x = NaN \/ x < 0 THEN NaN ELSE IF x = Inf THEN Inf ELSE Sign(x)

RECURSIVE Gcd(_, _)
Gcd(a, b) == IF b = 0 THEN a ELSE Gcd(b, a % b)

\* rationals <<numerator, denominator>> with denominator > 0, in lowest terms
Rat(n, d) ==
    LET g == Gcd(Abs(n), Abs(d))
    IN  IF g = 0 THEN <<0, 1>> ELSE <<Sign(d) * (n \div g), Abs(d) \div g>>

RatMulInt(q, k) ==
    LET g == Gcd(q[2], Abs(k))
    IN  Rat(q[1] * (k \div g), q[2] \div g)

RatSub(q, r) == Rat(q[1] * r[2] - r[1] * q[2], q[2] * r[2])

RatDiv(q, r) == Rat(q[1] * r[2], q[2] * r[1])

RatSign(q) == Sign(q[1])

\* integer square root, by bisection
RECURSIVE IsqrtIter(_, _, _)
IsqrtIter(n, lo, hi) ==
    IF lo >= hi THEN lo
    ELSE LET mid == (lo + hi + 1) \div 2
         IN  IF mid <= n \div mid THEN IsqrtIter(n, mid, hi)
             ELSE IsqrtIter(n, lo, mid - 1)

Isqrt(n) == IF n <= 0 THEN 0 ELSE IsqrtIter(n, 1, n)

----------------------------------------------------------------------------
(* Sidebar (lines 62-93) *)

\* molar mass and density of the preselected system "Acetona-Ar", in 1/100
\* g/mol and in kg/m3
M_A == 5808
rho_A == 791

\* the pressures, temperatures and reference diffusivities a user types
PVals == {<<1, 1>>, <<1, 2>>, <<66782, 101325>>}
TVals == {0, 318}
DRefVals == {109}

----------------------------------------------------------------------------
(* calcular_D_AB_teorico (lines 98-99) *)

T_ref == 273

\* x ** 1.75 = x * sqrt(x) * sqrt(sqrt(x)), on ratios with denominator RScale
Pow175(x) ==
    LET r2 == Isqrt(x * RScale)
        r4 == Isqrt(r2 * RScale)
    IN  (((x * r2) \div RScale) * r4) \div RScale

calcular_D_AB_teorico(temp, D_AB_ref) ==
    (D_AB_ref * Pow175((temp * RScale) \div T_ref)) \div RScale

----------------------------------------------------------------------------
(* modelo_diffusao (lines 104-112) *)

\* gas constant in mJ/(mol K), vapour pressures in Pa, Pa per atm
R == 8314
P_A1 == 66782
P_A2 == 0
AtmPa == 101325

\* The value of modelo_diffusao(t, D_AB) for one time t, under the sidebar
\* values P and T (globals of the script).  The result is the exception the
\* call raises, or the class of the float it returns: NaN, Inf, or the sign
\* 0 / 1 of a finite height.  termo is a numpy float64 (D_AB is one), so its
\* division never raises; the ratio inside the logarithm is a division of
\* Python floats, which raises ZeroDivisionError.
modelo_diffusao(t, D_AB) ==
    LET P_total == RatMulInt(P, AtmPa)
        termo == NpDiv(Sign(2 * M_A) * Sign(D_AB) * RatSign(P_total),
                       Sign(rho_A) * Sign(R) * Sign(T))
        num == RatSub(P_total, <<P_A2, 1>>)
        den == RatSub(P_total, <<P_A1, 1>>)
    IN  IF RatSign(den) = 0
        THEN [raises |-> "ZeroDivisionError", h |-> NaN]
        ELSE LET ratio == RatDiv(num, den)
                 \* numpy.log: nan below 0, -inf at 0, and the sign of ratio - 1
                 log_term == IF RatSign(ratio) < 0 THEN NaN
                             ELSE IF RatSign(ratio) = 0 THEN 0 - Inf
                             ELSE RatSign(RatSub(ratio, <<1, 1>>))
             IN  [raises |-> "None",
                  h |-> NpSqrtSign(FMul(FMul(termo, log_term), Sign(t)))]

----------------------------------------------------------------------------
(* Tables (pandas DataFrames) and uploaded files *)

\* A cell of the 'altura' column as pandas.read_csv yields it: NaN for an
\* empty cell, otherwise the number, here 0.5 and 1.0
HeightVals == {NaN, HScale \div 2, HScale}

SeqsUpTo(S, n) == UNION {[1..k -> S] : k \in 0..n}

\* the 'tempo' column of a table with n rows: one reading a minute
Tempos(n) == [i \in 1..n |-> 60 * (i - 1)]

\* a DataFrame: the names of its columns and the columns (absent ones empty)
DataFrame(cols, altura) ==
    [columns |-> cols,
     tempo |-> IF "tempo" \in cols THEN Tempos(Len(altura)) ELSE <<>>,
     altura |-> IF "altura" \in cols THEN altura ELSE <<>>,
     delta_z2 |-> <<>>]

\* the tables a user uploads: with both columns, and with one of them missing
\* (where the cells play no part, so those have no empty cell)
DataFrames ==
    {DataFrame({"tempo", "altura"}, a) : a \in SeqsUpTo(HeightVals, MaxRows)}
    \cup {DataFrame(cols, a) : cols \in {{"altura"}, {"tempo"}},
                               a \in SeqsUpTo(HeightVals \ {NaN}, MaxRows)}

\* the widget's value: None, a file pandas cannot parse, or a CSV file
NoFile == [kind |-> "None"]
Unreadable == [kind |-> "unreadable"]
CsvFile(df) == [kind |-> "csv", table |-> df]

Uploads == {NoFile, Unreadable} \cup {CsvFile(df) : df \in DataFrames}

----------------------------------------------------------------------------
(* processar_dados (lines 117-138) *)

RECURSIVE MaxFrom(_, _, _)
MaxFrom(col, i, best) ==
    IF i > Len(col) THEN best
    ELSE MaxFrom(col, i + 1,
                 IF col[i] = NaN THEN best
                 ELSE IF best = NaN \/ col[i] > best THEN col[i] ELSE best)

\* Series.max(): the largest cell, skipping NaN; NaN when nothing is left
SeriesMax(col) == MaxFrom(col, 1, NaN)

\* variant: the threshold test written as <= 1
LessThanOne_Inclusive(x) == x # NaN /\ x <= HScale

\* float < 1, false for NaN
LessThanOne(x) == x # NaN /\ x < HScale

\* x / 100
Div100(x) == IF x = NaN THEN NaN ELSE x \div 100

\* x ** 2
Sq(x) == FMul(x, x)

\* lines 125-128: the 'altura' column after the unit heuristic
ConverterAltura(altura) ==
    IF LessThanOne(SeriesMax(altura)) THEN altura
    ELSE [i \in DOMAIN altura |-> Div100(altura[i])]

\* lines 131-132: the column Z^2 - Z0^2, with z0 the first row's height
DeltaZ2(altura) ==
    LET z0 == altura[1]
    IN  [i \in DOMAIN altura |-> FSub(Sq(altura[i]), Sq(z0))]

\* variant: the column check written with "and", so that a table lacking
\* only one of the two columns is processed
processar_dados_E(df) ==
    IF "tempo" \notin df.columns /\ "altura" \notin df.columns
    THEN [ret |-> <<>>, erro |-> "colunas", df |-> df]
    ELSE LET df1 == [df EXCEPT !.altura = ConverterAltura(df.altura)]
         IN  IF Len(df1.altura) = 0
             THEN [ret |-> <<>>, erro |-> "excecao", df |-> df1]
             ELSE LET df2 == [df1 EXCEPT !.columns = @ \cup {"delta_z2"},
                                         !.delta_z2 = DeltaZ2(df1.altura)]
                  IN  [ret |-> <<df2>>, erro |-> "None", df |-> df2]

\* The call's outcome: what it returns (ret: <<>> for None, <<df>> for a
\* table), the error it showed, and the argument table df as the call left it
\* (the function assigns into its argument).  An empty 'altura' column makes
\* df['altura'].iloc[0] raise IndexError, which the except clause turns into
\* None after the column was already reassigned.
processar_dados(df) ==
    IF "tempo" \notin df.columns \/ "altura" \notin df.columns
    THEN [ret |-> <<>>, erro |-> "colunas", df |-> df]
    ELSE LET df1 == [df EXCEPT !.altura = ConverterAltura(df.altura)]
         IN  IF Len(df1.altura) = 0
             THEN [ret |-> <<>>, erro |-> "excecao", df |-> df1]
             ELSE LET df2 == [df1 EXCEPT !.columns = @ \cup {"delta_z2"},
                                         !.delta_z2 = DeltaZ2(df1.altura)]
                  IN  [ret |-> <<df2>>, erro |-> "None", df |-> df2]

----------------------------------------------------------------------------
(* st.session_state: each key holds <<>> when absent and <<value>> when set *)

SessaoVazia == [df_exp |-> <<>>, D_AB_exp |-> <<>>]

Has(ss, key) == ss[key] # <<>>

----------------------------------------------------------------------------
(* Tab 1, "Importar Dados" (lines 144-177) *)

\* variant: line 174 moved out of the "is not None" test, so that the result
\* of processar_dados is saved whatever it is
ImportarDados_SalvaSempre(file, ss) ==
    IF file.kind = "None"
    THEN [out |-> "sem_arquivo", ss |-> ss, df |-> <<>>]
    ELSE IF file.kind = "unreadable"
    THEN [out |-> "erro_leitura", ss |-> ss, df |-> <<>>]
    ELSE LET r == processar_dados(file.table)
         IN  [out |-> IF r.ret # <<>> THEN "ok" ELSE r.erro,
              ss |-> [ss EXCEPT !.df_exp = r.ret], df |-> <<r.df>>]

\* variant: line 174 missing, so that a processed table is shown but not saved
ImportarDados_NaoSalva(file, ss) ==
    IF file.kind = "None"
    THEN [out |-> "sem_arquivo", ss |-> ss, df |-> <<>>]
    ELSE IF file.kind = "unreadable"
    THEN [out |-> "erro_leitura", ss |-> ss, df |-> <<>>]
    ELSE LET r == processar_dados(file.table)
         IN  [out |-> IF r.ret # <<>> THEN "ok" ELSE r.erro, ss |-> ss, df |-> <<r.df>>]

\* variant: a failed upload deletes the stored series
ImportarDados_Descarta(file, ss) ==
    IF file.kind = "None"
    THEN [out |-> "sem_arquivo", ss |-> ss, df |-> <<>>]
    ELSE IF file.kind = "unreadable"
    THEN [out |-> "erro_leitura", ss |-> [ss EXCEPT !.df_exp = <<>>], df |-> <<>>]
    ELSE LET r == processar_dados(file.table)
         IN  [out |-> IF r.ret # <<>> THEN "ok" ELSE r.erro,
              ss |-> [ss EXCEPT !.df_exp = r.ret], df |-> <<r.df>>]

\* What the tab does with the widget's value file and the session ss: the
\* message it renders, the session it leaves, and the table it read.
ImportarDados(file, ss) ==
    IF file.kind = "None"
    THEN [out |-> "sem_arquivo", ss |-> ss, df |-> <<>>]
    ELSE IF file.kind = "unreadable"
    THEN [out |-> "erro_leitura", ss |-> ss, df |-> <<>>]
    ELSE LET r == processar_dados(file.table)
         IN  IF r.ret # <<>>
             THEN [out |-> "ok", ss |-> [ss EXCEPT !.df_exp = r.ret], df |-> <<r.df>>]
             ELSE [out |-> r.erro, ss |-> ss, df |-> <<r.df>>]

----------------------------------------------------------------------------
(* Tab 2, "Simulacao" (lines 179-234) *)

\* initial guess of the fit, 1e-5 m2/s
p0 == 100

\* the diffusivities an optimizer run may end on
FitVals == {p0 \div 2, p0, p0 + p0 \div 2}

\* modelo_diffusao over the whole 'tempo' column: the exception raised, else
\* "nan" when some height is not finite, else "finite"
ModeloNaColuna(tempo, D_AB) ==
    IF \E i \in DOMAIN tempo : modelo_diffusao(tempo[i], D_AB).raises # "None"
    THEN "ZeroDivisionError"
    ELSE IF \E i \in DOMAIN tempo : ~ IsFinite(modelo_diffusao(tempo[i], D_AB).h)
    THEN "nan"
    ELSE "finite"

\* scipy.optimize.curve_fit(modelo_diffusao, tempo, altura, p0=[1e-5]): the
\* set of its possible outcomes.  It rejects data that is not finite
\* (check_finite), lets an exception of the model through, and otherwise
\* runs the optimizer, which may fail (RuntimeError) or return a value; on
\* residuals that are not finite MINPACK stops at once and returns p0.
curve_fit(df) ==
    IF \E i \in DOMAIN df.altura : ~ IsFinite(df.altura[i])
    THEN {[raises |-> "ValueError", popt |-> NaN, modelo |-> "not_called"]}
    ELSE LET m == ModeloNaColuna(df.tempo, p0)
         IN  IF m = "ZeroDivisionError"
             THEN {[raises |-> m, popt |-> NaN, modelo |-> m]}
             ELSE IF m = "nan"
             THEN {[raises |-> "RuntimeError", popt |-> NaN, modelo |-> m],
                   [raises |-> "None", popt |-> p0, modelo |-> m]}
             ELSE {[raises |-> "RuntimeError", popt |-> NaN, modelo |-> m]}
                  \cup {[raises |-> "None", popt |-> d, modelo |-> m] : d \in FitVals}

\* What the tab does with the session ss when curve_fit ends as fit
Simulacao(ss, fit) ==
    IF fit.raises # "None"
    THEN [out |-> "erro_ajuste", ss |-> ss]
    ELSE [out |-> "ajustado", ss |-> [ss EXCEPT !.D_AB_exp = <<fit.popt>>]]

----------------------------------------------------------------------------
(* Tab 3, "Resultados" (lines 236-293) *)

\* lines 246-247; erro_absoluto is a numpy float64 (D_AB_exp is one)
ErroAbsoluto(D_teo, D_exp) == Abs(D_teo - D_exp)

ErroRelativo(D_teo, D_exp) == FMul(NpDiv(ErroAbsoluto(D_teo, D_exp), D_teo), 100)

\* variant: the first two values of the 'Valor' column in the other order
ExportCsv_Trocado(D_exp, D_teo, erro) ==
    <<[Parametro |-> "D_AB_Experimental", Valor |-> D_teo, Unidade |-> "m²/s"],
      [Parametro |-> "D_AB_Teorico", Valor |-> D_exp, Unidade |-> "m²/s"],
      [Parametro |-> "Erro_Relativo", Valor |-> erro, Unidade |-> "%"]>>

\* lines 284-293: the rows of the exported CSV
ExportCsv(D_exp, D_teo, erro) ==
    <<[Parametro |-> "D_AB_Experimental", Valor |-> D_exp, Unidade |-> "m²/s"],
      [Parametro |-> "D_AB_Teorico", Valor |-> D_teo, Unidade |-> "m²/s"],
      [Parametro |-> "Erro_Relativo", Valor |-> erro, Unidade |-> "%"]>>

Resultados(ss) ==
    IF ~ Has(ss, "D_AB_exp")
    THEN [out |-> "aviso", metrics |-> <<>>, export |-> <<>>]
    ELSE LET D_AB_exp == ss.D_AB_exp[1]
             D_AB_teorico_ajustado == calcular_D_AB_teorico(T, D_AB_teorico)
             erro_relativo == ErroRelativo(D_AB_teorico_ajustado, D_AB_exp)
         IN  [out |-> "resultados",
              metrics |-> <<D_AB_exp, D_AB_teorico_ajustado, erro_relativo>>,
              export |-> ExportCsv(D_AB_exp, D_AB_teorico_ajustado, erro_relativo)]

----------------------------------------------------------------------------
(* The script as a state machine *)

\* the first run of a session: every widget at its default, nothing uploaded
Init ==
    /\ uploaded_file = NoFile
    /\ P = <<1, 1>>
    /\ T = 318
    /\ D_AB_teorico = 109
    /\ session_state = SessaoVazia
    /\ pc = "tab1"
    /\ df_lido = <<>>
    /\ tab1Out = "pendente"
    /\ tab2Out = "pendente"
    /\ modeloOut = "not_called"
    /\ tab3Out = "pendente"
    /\ metrics = <<>>
    /\ export = <<>>
    /\ sessao_antes = SessaoVazia
    /\ arquivo_novo = FALSE

\* The widget values after one user interaction: at most one widget changed
Interacoes ==
    {<<f, P, T, D_AB_teorico>> : f \in Uploads}
    \cup {<<uploaded_file, p, T, D_AB_teorico>> : p \in PVals}
    \cup {<<uploaded_file, P, t, D_AB_teorico>> : t \in TVals}
    \cup {<<uploaded_file, P, T, d>> : d \in DRefVals}

\* A user interaction: the script starts over with the new widget values,
\* nothing rendered yet and only session_state kept.
Rerun ==
    /\ pc = "idle"
    /\ \E w \in Interacoes :
          /\ uploaded_file' = w[1]
          /\ P' = w[2]
          /\ T' = w[3]
          /\ D_AB_teorico' = w[4]
    /\ pc' = "tab1"
    /\ df_lido' = <<>>
    /\ tab1Out' = "pendente"
    /\ tab2Out' = "pendente"
    /\ modeloOut' = "not_called"
    /\ tab3Out' = "pendente"
    /\ metrics' = <<>>
    /\ export' = <<>>
    /\ sessao_antes' = session_state
    /\ arquivo_novo' = (uploaded_file' # uploaded_file /\ uploaded_file' # NoFile)
    /\ UNCHANGED session_state

Tab1 ==
    /\ pc = "tab1"
    /\ LET r == ImportarDados(uploaded_file, session_state)
       IN  /\ tab1Out' = r.out
           /\ session_state' = r.ss
           /\ df_lido' = r.df
    /\ pc' = "tab2"
    /\ UNCHANGED <<uploaded_file, P, T, D_AB_teorico, tab2Out, modeloOut,
                   tab3Out, metrics, export, sessao_antes, arquivo_novo>>

Tab2 ==
    /\ pc = "tab2"
    /\ IF ~ Has(session_state, "df_exp")
       THEN /\ tab2Out' = "aviso"
            /\ UNCHANGED <<session_state, modeloOut>>
       ELSE \E fit \in curve_fit(session_state.df_exp[1]) :
               LET r == Simulacao(session_state, fit)
               IN  /\ tab2Out' = r.out
                   /\ session_state' = r.ss
                   /\ modeloOut' = fit.modelo
    /\ pc' = "tab3"
    /\ UNCHANGED <<uploaded_file, P, T, D_AB_teorico, df_lido, tab1Out,
                   tab3Out, metrics, export, sessao_antes, arquivo_novo>>

Tab3 ==
    /\ pc = "tab3"
    /\ LET r == Resultados(session_state)
       IN  /\ tab3Out' = r.out
           /\ metrics' = r.metrics
           /\ export' = r.export
    /\ pc' = "idle"
    /\ sessao_antes' = session_state
    /\ arquivo_novo' = FALSE
    /\ UNCHANGED <<uploaded_file, P, T, D_AB_teorico, session_state, df_lido,
                   tab1Out, tab2Out, modeloOut>>

Next == Rerun \/ Tab1 \/ Tab2 \/ Tab3

Spec == Init /\ [][Next]_vars

----------------------------------------------------------------------------
(* Properties *)

\* the running rerun is past tab 1
Tab1Rodou == pc \in {"tab2", "tab3"}

\* tab 1 of the running rerun failed: read exception, missing columns, or an
\* exception inside processar_dados
Tab1Falhou == tab1Out \in {"erro_leitura", "colunas", "excecao"}

\* C1 as stated: a failed read or preprocessing leaves session_state.df_exp
\* as it was before the rerun, and a curve_fit that raises leaves both df_exp
\* and D_AB_exp as they were before the rerun.
C1_Original ==
    /\ (Tab1Rodou /\ Tab1Falhou) => session_state.df_exp = sessao_antes.df_exp
    /\ (pc = "tab3" /\ tab2Out = "erro_ajuste") => session_state = sessao_antes

\* C1 amended: a failed read or preprocessing leaves the whole session as it
\* was before the rerun; a curve_fit that raises leaves D_AB_exp as it was
\* before the rerun and df_exp as tab 1 of the same rerun left it (the table
\* tab 1 just saved when it succeeded, the value before the rerun otherwise).
C1_FalhaPreservaSessao ==
    /\ (Tab1Rodou /\ Tab1Falhou) => session_state.df_exp = sessao_antes.df_exp
    /\ (pc = "tab2" /\ Tab1Falhou) => session_state = sessao_antes
    /\ (pc = "tab3" /\ tab2Out = "erro_ajuste") =>
          /\ session_state.D_AB_exp = sessao_antes.D_AB_exp
          /\ session_state.df_exp = IF tab1Out = "ok" THEN df_lido
                                    ELSE sessao_antes.df_exp

\* C1 witness: an upload with a missing column and then a failed fit, in a
\* session that held a series and a fitted diffusivity
C1_Witness ==
    /\ pc = "tab3"
    /\ tab1Out = "colunas"
    /\ tab2Out = "erro_ajuste"
    /\ Has(session_state, "df_exp")
    /\ Has(session_state, "D_AB_exp")

\* C2 as stated: after tab 1 of a rerun started by uploading a new file,
\* whether or not the file validates, a series held by the session is the one
\* produced from the new file (the earlier one is gone).
C2_Original ==
    (Tab1Rodou /\ arquivo_novo /\ Has(session_state, "df_exp")) =>
        (tab1Out = "ok" /\ session_state.df_exp = df_lido)

\* C2 amended: after tab 1 of a rerun started by uploading a new file, the
\* session holds the series produced from the new file when the file was read
\* and preprocessed successfully, and still holds what it held before the
\* rerun when it was not.
C2_SubstituiSeValido ==
    (Tab1Rodou /\ arquivo_novo) =>
        IF tab1Out = "ok"
        THEN session_state.df_exp = processar_dados(uploaded_file.table).ret
        ELSE session_state.df_exp = sessao_antes.df_exp

\* C2 witness: a new valid file replaced a different stored series
C2_Witness ==
    /\ pc = "tab3"
    /\ arquivo_novo
    /\ tab1Out = "ok"
    /\ Has(sessao_antes, "df_exp")
    /\ sessao_antes.df_exp # session_state.df_exp

\* the uploaded table lacks 'tempo' or 'altura'
FaltaColuna ==
    /\ uploaded_file.kind = "csv"
    /\ ~ ({"tempo", "altura"} \subseteq uploaded_file.table.columns)

\* C3: when the uploaded table lacks 'tempo' or 'altura', tab 1 reports the
\* missing columns, processar_dados returns None, the table is left as read
\* (heights not converted, no delta_z2 column), session_state.df_exp is not
\* written, and tab 2 fits nothing of that upload: it warns when the session
\* held no series, and otherwise works on the series held before.
C3_ColunasAusentes ==
    (Tab1Rodou /\ FaltaColuna) =>
        /\ tab1Out = "colunas"
        /\ processar_dados(uploaded_file.table).ret = <<>>
        /\ df_lido = <<uploaded_file.table>>
        /\ "delta_z2" \notin df_lido[1].columns
        /\ df_lido[1].delta_z2 = <<>>
        /\ session_state.df_exp = sessao_antes.df_exp
        /\ (pc = "tab3" /\ ~ Has(sessao_antes, "df_exp")) =>
              (tab2Out = "aviso" /\ modeloOut = "not_called")

\* C3 witness: a table with heights in centimetres and no 'tempo' column, in
\* a session without a series
C3_Witness ==
    /\ pc = "tab3"
    /\ FaltaColuna
    /\ \E i \in DOMAIN uploaded_file.table.altura :
          uploaded_file.table.altura[i] >= HScale
    /\ tab2Out = "aviso"

\* the uploaded table has both columns
DuasColunas ==
    /\ uploaded_file.kind = "csv"
    /\ {"tempo", "altura"} \subseteq uploaded_file.table.columns

\* C4: for a table with both columns, when the largest height is below 1
\* every height is left as uploaded, when it is 1 or more every height is
\* divided by 100; the rows keep their number and their order, and the saved
\* series has these heights.
C4_Unidades ==
    (Tab1Rodou /\ DuasColunas) =>
        LET raw == uploaded_file.table.altura
            got == df_lido[1].altura
            nums == {i \in DOMAIN raw : raw[i] # NaN}
        IN  /\ Len(got) = Len(raw)
            /\ df_lido[1].tempo = uploaded_file.table.tempo
            /\ (nums # {} /\ \A i \in nums : raw[i] < HScale) => got = raw
            /\ (\E i \in nums : raw[i] >= HScale) =>
                  \A i \in DOMAIN raw :
                     got[i] = IF raw[i] = NaN THEN NaN ELSE raw[i] \div 100
            /\ tab1Out = "ok" => session_state.df_exp[1].altura = got

\* C4 witness: a saved table whose largest height is exactly 1 and which has
\* a smaller height too, divided by 100 like the rest
C4_Witness ==
    /\ pc = "tab2"
    /\ tab1Out = "ok"
    /\ DuasColunas
    /\ SeriesMax(uploaded_file.table.altura) = HScale
    /\ \E i \in DOMAIN uploaded_file.table.altura :
          /\ uploaded_file.table.altura[i] = HScale \div 2
          /\ df_lido[1].altura[i] = (HScale \div 2) \div 100

\* C5 as stated: in every series processar_dados returns, delta_z2 of the
\* first row is 0 and delta_z2 of row i is height[i]^2 - height[1]^2 on the
\* heights after unit normalization.
C5_Original ==
    (Tab1Rodou /\ tab1Out = "ok") =>
        LET d == session_state.df_exp[1]
        IN  /\ d.delta_z2[1] = 0
            /\ \A i \in DOMAIN d.altura :
                  d.delta_z2[i] = FSub(FMul(d.altura[i], d.altura[i]),
                                       FMul(d.altura[1], d.altura[1]))

\* C6 as stated: when the adjusted theoretical diffusivity is 0, tab 3 ends
\* in an error and neither shows nor exports a relative error.
C6_Original ==
    (/\ pc = "idle"
     /\ tab3Out # "pendente"
     /\ Has(session_state, "D_AB_exp")
     /\ calcular_D_AB_teorico(T, D_AB_teorico) = 0) =>
        (tab3Out = "erro" /\ metrics = <<>> /\ export = <<>>)

\* P_total - P_A1 <= 0
PressaoInvalida ==
    RatSign(RatSub(RatMulInt(P, AtmPa), <<P_A1, 1>>)) <= 0

\* C7 as stated: whenever P_total - P_A1 <= 0, modelo_diffusao ends in an
\* error instead of a height, so a fit run with such a pressure fails and
\* stores no D_AB_exp.
C7_Original ==
    (pc = "tab3" /\ modeloOut # "not_called" /\ PressaoInvalida) =>
        /\ modeloOut = "ZeroDivisionError"
        /\ tab2Out = "erro_ajuste"
        /\ session_state.D_AB_exp = sessao_antes.D_AB_exp

\* C8: whenever the export is offered, a D_AB_exp is stored and the CSV has
\* three rows with the columns Parametro, Valor, Unidade: the stored D_AB_exp
\* in m2/s, calcular_D_AB_teorico(T, D_AB_teorico) for the current T in m2/s,
\* and the relative error of the first against the second in %.
C8_Export ==
    export # <<>> =>
        /\ Has(session_state, "D_AB_exp")
        /\ Len(export) = 3
        /\ \A i \in 1..3 : DOMAIN export[i] = {"Parametro", "Valor", "Unidade"}
        /\ <<export[1].Parametro, export[2].Parametro, export[3].Parametro>>
              = <<"D_AB_Experimental", "D_AB_Teorico", "Erro_Relativo">>
        /\ <<export[1].Unidade, export[2].Unidade, export[3].Unidade>>
              = <<"m²/s", "m²/s", "%">>
        /\ export[1].Valor = session_state.D_AB_exp[1]
        /\ export[2].Valor = calcular_D_AB_teorico(T, D_AB_teorico)
        /\ LET e == export[1].Valor
               t == export[2].Valor
           IN  export[3].Valor =
                  IF t # 0 THEN ((Abs(t - e) * RScale) \div t) * 100
                  ELSE IF e # 0 THEN Inf ELSE NaN

\* C8 witness: an export whose first two values differ
C8_Witness ==
    /\ export # <<>>
    /\ T = 318
    /\ export[1].Valor # export[2].Valor
    /\ IsFinite(export[3].Valor)

\* C10: D_AB_exp is present only if df_exp is; tab 2 attempts a fit only
\* when a series is stored, tab 3 shows results and offers the export only
\* when a fitted diffusivity is stored; no step removes a key once set.
C10_Ordem ==
    /\ [](/\ Has(session_state, "D_AB_exp") => Has(session_state, "df_exp")
          /\ tab2Out \in {"ajustado", "erro_ajuste"} => Has(session_state, "df_exp")
          /\ modeloOut # "not_called" => Has(session_state, "df_exp")
          /\ (tab3Out = "resultados" \/ metrics # <<>> \/ export # <<>>) =>
                Has(session_state, "D_AB_exp"))
    /\ [][\A k \in {"df_exp", "D_AB_exp"} :
             Has(session_state, k) => Has(session_state', k)]_vars

\* C10 witness: results shown in a rerun whose upload failed, from the
\* series and the fit of earlier reruns
C10_Witness ==
    /\ pc = "idle"
    /\ tab1Out = "excecao"
    /\ tab2Out = "erro_ajuste"
    /\ tab3Out = "resultados"
    /\ export # <<>>

====
